---- MODULE Spec2Model ----
(***************************************************************************)
(* Model of restic's backend plumbing:                                     *)
(*   - internal/backend/watchdog_roundtriper.go: watchdogRoundtriper and   *)
(*     watchdogReadCloser (a per-request timer raced against I/O progress) *)
(*   - location.Registry (scheme -> Factory map).                          *)
(*                                                                         *)
(* Time is discrete: one Tick is one unit of wall-clock time, w.timeout is *)
(* Timeout units.  Every RoundTrip invocation is identified by a call id.  *)
(***************************************************************************)
EXTENDS Integers, FiniteSets, Sequences, TLC

\* ------------------------------------------------------------- bounds
Timeout   == 2      \* w.timeout, in ticks
ChunkSize == 2      \* w.chunkSize, in bytes
MaxBuf    == 3      \* largest len(p) a caller passes to Read
MaxCloses == 2      \* Close calls made on the lone read-closer
StreamLen == 2      \* bytes each underlying body stream can deliver

Calls   == {"c1", "c2"}          \* RoundTrip invocations on one transport
Bodies  == {"req", "resp"}       \* the two wrapped streams of a call
Schemes == {"local", "s3"}       \* registry keys
Nil     == "nil"                 \* the nil Factory interface value
Factories == {"f1", "f2"}        \* non-nil Factory instances
Never   == "never"               \* history: scheme never stored

VARIABLES
    pc,         \* call -> "off" | "idle" | "called" | "ok" | "err"
    hasBody,    \* call -> req.Body != nil
    parentDone, \* call -> req.Context() is cancelled
    ctxDone,    \* call -> the derived ctx is cancelled
    timerRem,   \* call -> ticks until the timer expires; 0 = stopped/expired
    fired,      \* call -> a value is pending on timer.C
    w,          \* call -> watcher goroutine: "none"|"select"|"cancel"|"stop"|"done"
    rd,         \* call -> body -> [busy, want]: a Read blocked in rc.Read(p[:want])
    pos,        \* call -> body -> bytes delivered so far through the wrapper
    closed,     \* call -> body -> Close has been called on the wrapper
    sinceKick,  \* call -> ticks since the last kick / timer start (saturating)
    longGap,    \* call -> some kick came Timeout or more ticks after the previous one
    factories,  \* Registry.factories: a map (function on the present keys)
    stored,     \* history: scheme -> last value Register stored, or Never
    lastOp,     \* the last Registry operation and its outcome
    facStrip,   \* factory -> its stripPasswordFn (Nil when none was supplied)
    returned,   \* history: the (factory, config value) pairs ParseConfig returned
    facOp,      \* the last GenericBackendFactory call and its outcome
    rcChunk,    \* a lone watchdogReadCloser: its chunkSize
    rcHasClose, \* ... whether it was built with a close action
    rcPc,       \* ... where its Read is: "idle" or the source line it is at
    rcLen,      \* ... len(p) of the current or last Read
    rcWant,     \* ... the length of the slice handed to rc.Read
    rcRes,      \* ... what rc.Read returned: [n, err]
    rcGot,      \* ... the bytes rc.Read wrote into the buffer
    rcKicks,    \* ... kick calls made by the current or last Read
    rcRet,      \* ... what the last Read returned to its caller: [n, err]
    uPos,       \* ... bytes consumed from the underlying stream
    rcOut,      \* ... all bytes the callers got, in order
    rcCloses,   \* ... number of Close calls made
    rcCloseLog, \* ... the calls those Closes made, in order
    rcCloseRet  \* ... what the last Close returned

wdVars  == <<pc, hasBody, parentDone, ctxDone, timerRem, fired, w, rd, pos,
             closed, sinceKick, longGap>>
regVars == <<factories, stored, lastOp>>
facVars == <<facStrip, returned, facOp>>
vars    == <<pc, hasBody, parentDone, ctxDone, timerRem, fired, w, rd, pos,
             closed, sinceKick, longGap, factories, stored, lastOp,
             facStrip, returned, facOp, rcChunk, rcHasClose, rcPc, rcLen,
             rcWant, rcRes, rcGot, rcKicks, rcRet, uPos, rcOut, rcCloses,
             rcCloseLog, rcCloseRet>>
rcVars  == <<rcChunk, rcHasClose, rcPc, rcLen, rcWant, rcRes, rcGot, rcKicks,
             rcRet, uPos, rcOut, rcCloses, rcCloseLog, rcCloseRet>>

Min(a, b) == IF a < b THEN a ELSE b

\* ------------------------------------------------------------- registry
\* Go map index expression m[k]: the zero value (nil) for a missing key.
MapIndex(m, k) == IF k \in DOMAIN m THEN m[k] ELSE Nil

MapAssignOnly(m, k, v) == [x \in {k} |-> v]
\* Go map assignment m[k] = v.
MapAssign(m, k, v) == [x \in DOMAIN m \cup {k} |-> IF x = k THEN v ELSE m[x]]

DuplicateNever(m, scheme) == FALSE
DuplicateKeyPresent(m, scheme) == scheme \in DOMAIN m
\* The guard of Register: r.factories[scheme] != nil.
Duplicate(m, scheme) == MapIndex(m, scheme) # Nil

NoOp == [op |-> "none", scheme |-> Nil, factory |-> Nil, out |-> Nil,
         panic |-> FALSE, before |-> <<>>]

\* NewRegistry: an empty map.
NewRegistry == /\ factories = <<>>
               /\ stored = [s \in Schemes |-> Never]
               /\ lastOp = NoOp

\* Registry.Register: panic("duplicate backend") or store.  A panic leaves the
\* map as it was; the run may go on (a recovered panic).
Register(scheme, factory) ==
    /\ IF Duplicate(factories, scheme)
         THEN /\ UNCHANGED <<factories, stored>>
              /\ lastOp' = [op |-> "register", scheme |-> scheme,
                            factory |-> factory, out |-> Nil, panic |-> TRUE,
                            before |-> factories]
         ELSE /\ factories' = MapAssign(factories, scheme, factory)
              /\ stored' = [stored EXCEPT ![scheme] = factory]
              /\ lastOp' = [op |-> "register", scheme |-> scheme,
                            factory |-> factory, out |-> Nil, panic |-> FALSE,
                            before |-> factories]
    /\ UNCHANGED <<wdVars, facVars, rcVars>>

\* Registry.Lookup: return r.factories[scheme].
Lookup(scheme) ==
    /\ lastOp' = [op |-> "lookup", scheme |-> scheme, factory |-> Nil,
                  out |-> MapIndex(factories, scheme), panic |-> FALSE,
                  before |-> factories]
    /\ UNCHANGED <<factories, stored>>
    /\ UNCHANGED <<wdVars, facVars, rcVars>>

\* ------------------------------------------------------------- factories
FacIds      == {"fa", "fb"}                  \* two GenericBackendFactory values
CfgStrings  == {"host", "user:pw@host"}      \* location strings to parse
Strings     == {"", "host", "user:pw@host", "user:***@host"}
StripFns    == {"redact", "blank"}           \* stripping functions a backend supplies
NilPtr      == "nilptr"                      \* a nil *C
Transports  == {"rt1"}                       \* http.RoundTripper values
Limiters    == {"lim1"}                      \* limiter.Limiter values
Unused      == "-"                           \* an argument the inner function has not

\* fa is built by NewHTTPBackendFactory, fb by NewLimitedBackendFactory.
FacKind(f) == IF f = "fa" THEN "http" ELSE "limited"

\* The type parameter C of each factory.
CfgType(f) == IF f = "fa" THEN "A" ELSE "B"

\* The dynamic type of what ParseConfig returns: parseConfigFn yields a *C.
ParsedType(f) == "*" \o CfgType(f)

AssertedTypeValue(f) == CfgType(f)
\* The type Create and Open assert: cfg.(*C).
AssertedType(f) == "*" \o CfgType(f)

TypeAssertAny(cfg, f) == TRUE
\* cfg.(*C) succeeds exactly when the dynamic type of cfg is *C (a nil
\* interface has none).
TypeAssert(cfg, f) == cfg.dyn = AssertedType(f)

\* Interface values a caller can pass as cfg: pointers of either config type
\* (nil or not), a config passed by value, the nil interface.
CfgValues ==
    {[dyn |-> d, val |-> v] : d \in {"*A", "*B"}, v \in CfgStrings \cup {NilPtr}}
       \cup {[dyn |-> "A", val |-> "host"], [dyn |-> "nil", val |-> NilPtr]}

\* What the stripping functions do to a location string.
ApplyStrip(fn, s) ==
    CASE fn = "redact" -> (IF s = "user:pw@host" THEN "user:***@host" ELSE s)
      [] fn = "blank"  -> ""
      [] OTHER         -> "panic: nil func"

StripResultNoCheck(fn, s) == ApplyStrip(fn, s)
\* GenericBackendFactory.StripPassword: the function if there is one, else s.
StripResult(fn, s) == IF fn # Nil THEN ApplyStrip(fn, s) ELSE s

NoCall == [fn |-> "none", cfg |-> Unused, rt |-> Unused, lim |-> Unused]

\* The createFn/openFn closures of the two constructors: the transport-based
\* one drops the limiter, the limiter-based one drops the transport.
InnerCall(f, fn, c, rt, lim) ==
    IF FacKind(f) = "http"
      THEN [fn |-> fn, cfg |-> c, rt |-> rt, lim |-> Unused]
      ELSE [fn |-> fn, cfg |-> c, rt |-> Unused, lim |-> lim]

NoFacOp == [op |-> "none", f |-> Nil, arg |-> Nil, panic |-> "none",
            inner |-> NoCall, out |-> Nil]

\* No factory call made yet; no factory has a stripping function.
FacIdle ==
    /\ facStrip = [f \in FacIds |-> Nil]
    /\ returned = {}
    /\ facOp = NoFacOp

\* Factories as the constructors build them, with or without stripPasswordFn.
FacInit ==
    /\ facStrip \in [FacIds -> StripFns \cup {Nil}]
    /\ returned = {}
    /\ facOp = NoFacOp

\* GenericBackendFactory.ParseConfig: return f.parseConfigFn(s).  The parser
\* yields a *C, or nil and an error.
ParseConfig(f, s, ok) ==
    LET cfg == [dyn |-> ParsedType(f), val |-> IF ok THEN s ELSE NilPtr]
    IN  /\ returned' = returned \cup {[f |-> f, cfg |-> cfg]}
        /\ facOp' = [op |-> "parse", f |-> f, arg |-> s, panic |-> "none",
                     inner |-> NoCall,
                     out |-> [cfg |-> cfg, err |-> ~ok]]
        /\ UNCHANGED facStrip
        /\ UNCHANGED <<wdVars, regVars, rcVars>>

\* GenericBackendFactory.StripPassword.
StripPassword(f, s) ==
    /\ facOp' = [op |-> "strip", f |-> f, arg |-> s, panic |-> "none",
                 inner |-> NoCall, out |-> StripResult(facStrip[f], s)]
    /\ UNCHANGED <<facStrip, returned>>
    /\ UNCHANGED <<wdVars, regVars, rcVars>>

\* GenericBackendFactory.Create and Open: f.createFn(ctx, *cfg.(*C), rt, lim).
\* The assertion panics on another dynamic type, the dereference on a nil
\* pointer; otherwise the backend's function runs and its result is returned.
CreateOrOpen(fn, f, cfg, rt, lim, res) ==
    LET panic == IF ~TypeAssert(cfg, f) THEN "assert"
                 ELSE IF cfg.val = NilPtr THEN "nilptr" ELSE "none"
    IN  /\ facOp' = [op |-> fn, f |-> f, arg |-> cfg, panic |-> panic,
                     inner |-> IF panic = "none"
                                 THEN InnerCall(f, fn, cfg.val, rt, lim)
                                 ELSE NoCall,
                     out |-> IF panic = "none" THEN res ELSE "panic"]
        /\ UNCHANGED <<facStrip, returned>>
        /\ UNCHANGED <<wdVars, regVars, rcVars>>

Create(f, cfg, rt, lim, res) == CreateOrOpen("create", f, cfg, rt, lim, res)
Open(f, cfg, rt, lim, res) == CreateOrOpen("open", f, cfg, rt, lim, res)

\* ------------------------------------------------------------- watchdog
TimerResetIfStopped(t, d) == IF t = 0 THEN d ELSE t
\* timer.Reset(d) on a timer with t ticks left: d ticks left, armed.
TimerReset(t, d) == d

TimerStopNoop(t) == t
\* timer.Stop(): the timer is no longer armed.
TimerStop(t) == 0

CancelToggle(done) == ~done
\* cancel(): the derived context is done; calling it again changes nothing.
Cancel(done) == TRUE

HasCloseActionAlways(b) == TRUE
\* newWatchdogReadCloser(rc, chunkSize, kick, close): close is nil for the
\* request body and cancel for the response body.
HasCloseAction(b) == b = "resp"

CapNone(len, chunk) == len
\* The cap of Read: p = p[:w.chunkSize] when len(p) > w.chunkSize.
Cap(len, chunk) == IF len > chunk THEN chunk ELSE len

\* The cap under the transport's chunkSize.
Capped(len) == Cap(len, ChunkSize)

KickShared(r) ==
    /\ timerRem' = [q \in Calls |-> TimerReset(timerRem[q], Timeout)]
    /\ fired' = fired
    /\ longGap' = [longGap EXCEPT ![r] = @ \/ sinceKick[r] >= Timeout]
    /\ sinceKick' = [sinceKick EXCEPT ![r] = 0]
KickDrain(r) ==
    /\ timerRem' = [timerRem EXCEPT ![r] = TimerReset(@, Timeout)]
    /\ fired' = [fired EXCEPT ![r] = FALSE]
    /\ longGap' = [longGap EXCEPT ![r] = @ \/ sinceKick[r] >= Timeout]
    /\ sinceKick' = [sinceKick EXCEPT ![r] = 0]
\* kick: timer.Reset(w.timeout).  An expiry already sent on timer.C is not
\* taken back: the watcher, blocked in its select, has been handed the value.
\* sinceKick and longGap record the gaps between kicks.
Kick(r) ==
    /\ timerRem' = [timerRem EXCEPT ![r] = TimerReset(@, Timeout)]
    /\ fired' = fired
    /\ longGap' = [longGap EXCEPT ![r] = @ \/ sinceKick[r] >= Timeout]
    /\ sinceKick' = [sinceKick EXCEPT ![r] = 0]

\* ------------------------------------------------------------- read-closer
\* One watchdogReadCloser by itself: kick and close are callbacks that are
\* counted, rc is a stream of StreamLen bytes, byte i having the value i.
ReadErrs == {"nil", "EOF", "err"}       \* errors rc.Read can return
CloseErrs == {"nil", "err"}             \* errors rc.Close can return
NoRet == [n |-> 0, err |-> "none"]      \* no Read has returned yet

\* Bytes from+1 .. from+n of the underlying stream.
StreamBytes(from, n) == [i \in 1..n |-> from + i]

\* The first n bytes of buffer contents b (all of it when n is larger).
Take(b, n) == SubSeq(b, 1, Min(n, Len(b)))

\* w.kick() before rc.Read.
KickBefore(k) == k + 1

KickAfterOnSuccess(k, err) == IF err = "nil" THEN k + 1 ELSE k
\* w.kick() after rc.Read, whatever it returned.
KickAfter(k, err) == k + 1

ReadResultDropErr(n, err) == [n |-> n, err |-> IF n > 0 THEN "nil" ELSE err]
\* return n, err.
ReadResult(n, err) == [n |-> n, err |-> err]

CloseEventsUnderFirst(has, uerr) ==
    <<"rc.Close:" \o uerr>> \o (IF has THEN <<"close()">> ELSE <<>>)
\* The calls one Close makes: w.close() when it is not nil, then rc.Close().
CloseEvents(has, uerr) ==
    (IF has THEN <<"close()">> ELSE <<>>) \o <<"rc.Close:" \o uerr>>

\* No lone read-closer is in use.
RcIdle ==
    /\ rcChunk = ChunkSize
    /\ rcHasClose = FALSE
    /\ rcPc = "idle"
    /\ rcLen = 0
    /\ rcWant = 0
    /\ rcRes = NoRet
    /\ rcGot = <<>>
    /\ rcKicks = 0
    /\ rcRet = NoRet
    /\ uPos = 0
    /\ rcOut = <<>>
    /\ rcCloses = 0
    /\ rcCloseLog = <<>>
    /\ rcCloseRet = "none"

\* newWatchdogReadCloser(rc, chunkSize, kick, close) with chunkSize >= 1 and
\* close nil or not.
RcInit ==
    /\ rcChunk \in 1..ChunkSize
    /\ rcHasClose \in BOOLEAN
    /\ rcPc = "idle"
    /\ rcLen = 0
    /\ rcWant = 0
    /\ rcRes = NoRet
    /\ rcGot = <<>>
    /\ rcKicks = 0
    /\ rcRet = NoRet
    /\ uPos = 0
    /\ rcOut = <<>>
    /\ rcCloses = 0
    /\ rcCloseLog = <<>>
    /\ rcCloseRet = "none"

\* A caller calls Read(p) with len(p) = len.
RcCall(len) ==
    /\ rcPc = "idle"
    /\ rcPc' = "l86"
    /\ rcLen' = len
    /\ rcKicks' = 0
    /\ rcWant' = 0
    /\ UNCHANGED <<rcChunk, rcHasClose, rcRes, rcGot, rcRet, uPos, rcOut,
                   rcCloses, rcCloseLog, rcCloseRet>>
    /\ UNCHANGED <<wdVars, regVars, facVars>>

\* Read, line 86: w.kick().
RcKickBefore ==
    /\ rcPc = "l86"
    /\ rcPc' = "l88"
    /\ rcKicks' = KickBefore(rcKicks)
    /\ UNCHANGED <<rcChunk, rcHasClose, rcLen, rcWant, rcRes, rcGot, rcRet,
                   uPos, rcOut, rcCloses, rcCloseLog, rcCloseRet>>
    /\ UNCHANGED <<wdVars, regVars, facVars>>

\* Read, lines 88-91: cap p and call rc.Read(p).
RcEnter ==
    /\ rcPc = "l88"
    /\ rcPc' = "l91"
    /\ rcWant' = Cap(rcLen, rcChunk)
    /\ UNCHANGED <<rcChunk, rcHasClose, rcLen, rcRes, rcGot, rcKicks, rcRet,
                   uPos, rcOut, rcCloses, rcCloseLog, rcCloseRet>>
    /\ UNCHANGED <<wdVars, regVars, facVars>>

\* rc.Read returns: it has written n bytes, no more than the slice holds and
\* the stream has left, and reports err.
RcUnderReturn(n, err) ==
    /\ rcPc = "l91"
    /\ n <= Min(rcWant, StreamLen - uPos)
    /\ rcPc' = "l92"
    /\ rcRes' = [n |-> n, err |-> err]
    /\ rcGot' = StreamBytes(uPos, n)
    /\ uPos' = uPos + n
    /\ UNCHANGED <<rcChunk, rcHasClose, rcLen, rcWant, rcKicks, rcRet, rcOut,
                   rcCloses, rcCloseLog, rcCloseRet>>
    /\ UNCHANGED <<wdVars, regVars, facVars>>

\* Read, line 92: w.kick().
RcKickAfter ==
    /\ rcPc = "l92"
    /\ rcPc' = "l94"
    /\ rcKicks' = KickAfter(rcKicks, rcRes.err)
    /\ UNCHANGED <<rcChunk, rcHasClose, rcLen, rcWant, rcRes, rcGot, rcRet,
                   uPos, rcOut, rcCloses, rcCloseLog, rcCloseRet>>
    /\ UNCHANGED <<wdVars, regVars, facVars>>

\* Read, line 94: return n, err; the caller takes p[:n].
RcReturn ==
    /\ rcPc = "l94"
    /\ rcPc' = "idle"
    /\ rcRet' = ReadResult(rcRes.n, rcRes.err)
    /\ rcOut' = rcOut \o Take(rcGot, rcRet'.n)
    /\ UNCHANGED <<rcChunk, rcHasClose, rcLen, rcWant, rcRes, rcGot, rcKicks,
                   uPos, rcCloses, rcCloseLog, rcCloseRet>>
    /\ UNCHANGED <<wdVars, regVars, facVars>>

\* watchdogReadCloser.Close, at any time: the close action if there is one,
\* then rc.Close(), whose result uerr is returned.
RcClose(uerr) ==
    /\ rcCloses < MaxCloses
    /\ rcCloses' = rcCloses + 1
    /\ rcCloseLog' = rcCloseLog \o CloseEvents(rcHasClose, uerr)
    /\ rcCloseRet' = uerr
    /\ UNCHANGED <<rcChunk, rcHasClose, rcPc, rcLen, rcWant, rcRes, rcGot,
                   rcKicks, rcRet, uPos, rcOut>>
    /\ UNCHANGED <<wdVars, regVars, facVars>>

WdInit(started) ==
    /\ pc = [r \in Calls |-> IF r \in started THEN "idle" ELSE "off"]
    /\ hasBody = [r \in Calls |-> FALSE]
    /\ parentDone = [r \in Calls |-> FALSE]
    /\ ctxDone = [r \in Calls |-> FALSE]
    /\ timerRem = [r \in Calls |-> 0]
    /\ fired = [r \in Calls |-> FALSE]
    /\ w = [r \in Calls |-> "none"]
    /\ rd = [r \in Calls |-> [b \in Bodies |-> [busy |-> FALSE, want |-> 0]]]
    /\ pos = [r \in Calls |-> [b \in Bodies |-> 0]]
    /\ closed = [r \in Calls |-> [b \in Bodies |-> FALSE]]
    /\ sinceKick = [r \in Calls |-> 0]
    /\ longGap = [r \in Calls |-> FALSE]

\* RoundTrip up to the call of w.rt.RoundTrip(req): new timer, derived
\* context (already done when the parent is), watcher goroutine in its select.
RoundTrip(r, body) ==
    /\ pc[r] = "idle"
    /\ pc' = [pc EXCEPT ![r] = "called"]
    /\ hasBody' = [hasBody EXCEPT ![r] = body]
    /\ timerRem' = [timerRem EXCEPT ![r] = Timeout]
    /\ ctxDone' = [ctxDone EXCEPT ![r] = parentDone[r]]
    /\ w' = [w EXCEPT ![r] = "select"]
    /\ sinceKick' = [sinceKick EXCEPT ![r] = 0]
    /\ UNCHANGED <<parentDone, fired, rd, pos, closed, longGap>>
    /\ UNCHANGED <<regVars, facVars, rcVars>>

\* w.rt.RoundTrip returned a response: its body is wrapped and handed out.
TransportOK(r) ==
    /\ pc[r] = "called"
    /\ pc' = [pc EXCEPT ![r] = "ok"]
    /\ UNCHANGED <<hasBody, parentDone, ctxDone, timerRem, fired, w, rd, pos,
                   closed, sinceKick, longGap>>
    /\ UNCHANGED <<regVars, facVars, rcVars>>

TransportErrCancel(r) ==
    /\ pc[r] = "called"
    /\ pc' = [pc EXCEPT ![r] = "err"]
    /\ ctxDone' = [ctxDone EXCEPT ![r] = Cancel(@)]
    /\ UNCHANGED <<hasBody, parentDone, timerRem, fired, w, rd, pos,
                   closed, sinceKick, longGap>>
    /\ UNCHANGED <<regVars, facVars, rcVars>>
\* w.rt.RoundTrip returned an error: return nil, err.  cancel is not called.
TransportErr(r) ==
    /\ pc[r] = "called"
    /\ pc' = [pc EXCEPT ![r] = "err"]
    /\ UNCHANGED <<hasBody, parentDone, ctxDone, timerRem, fired, w, rd, pos,
                   closed, sinceKick, longGap>>
    /\ UNCHANGED <<regVars, facVars, rcVars>>

\* Who may start a Read on which wrapper: the transport reads the request
\* body while its RoundTrip runs, the caller reads the response body it got.
CanRead(r, b) ==
    IF b = "req" THEN pc[r] = "called" /\ hasBody[r] /\ ~closed[r][b]
                 ELSE pc[r] = "ok"

\* watchdogReadCloser.Read, first half: kick, cap p, enter rc.Read.
ReadStart(r, b, len) ==
    /\ CanRead(r, b)
    /\ ~rd[r][b].busy
    /\ Kick(r)
    /\ rd' = [rd EXCEPT ![r][b] = [busy |-> TRUE, want |-> Capped(len)]]
    /\ UNCHANGED <<pc, hasBody, parentDone, ctxDone, w, pos, closed>>
    /\ UNCHANGED <<regVars, facVars, rcVars>>

\* watchdogReadCloser.Read, second half: rc.Read returned n bytes (with or
\* without an error), kick, return.  rc.Read may also never return.
ReadReturn(r, b, n) ==
    /\ rd[r][b].busy
    /\ n <= Min(rd[r][b].want, StreamLen - pos[r][b])
    /\ Kick(r)
    /\ pos' = [pos EXCEPT ![r][b] = @ + n]
    /\ rd' = [rd EXCEPT ![r][b] = [busy |-> FALSE, want |-> 0]]
    /\ UNCHANGED <<pc, hasBody, parentDone, ctxDone, w, closed>>
    /\ UNCHANGED <<regVars, facVars, rcVars>>

\* Who may close which wrapper: the transport closes the request body, the
\* caller closes the response body (any number of times).
CanClose(r, b) ==
    IF b = "req" THEN pc[r] \in {"called", "ok", "err"} /\ hasBody[r]
                 ELSE pc[r] = "ok"

\* watchdogReadCloser.Close: the close action if there is one, then rc.Close.
Close(r, b) ==
    /\ CanClose(r, b)
    /\ ctxDone' = [ctxDone EXCEPT ![r] =
                      IF HasCloseAction(b) THEN Cancel(@) ELSE @]
    /\ closed' = [closed EXCEPT ![r][b] = TRUE]
    /\ UNCHANGED <<pc, hasBody, parentDone, timerRem, fired, w, rd, pos,
                   sinceKick, longGap>>
    /\ UNCHANGED <<regVars, facVars, rcVars>>

\* The owner of req.Context() cancels it; a derived context follows at once.
ParentCancel(r) ==
    /\ pc[r] # "off"
    /\ ~parentDone[r]
    /\ parentDone' = [parentDone EXCEPT ![r] = TRUE]
    /\ ctxDone' = [ctxDone EXCEPT ![r] = IF pc[r] = "idle" THEN @ ELSE TRUE]
    /\ UNCHANGED <<pc, hasBody, timerRem, fired, w, rd, pos, closed,
                   sinceKick, longGap>>
    /\ UNCHANGED <<regVars, facVars, rcVars>>

\* One unit of time passes: every armed timer gets closer to expiry, and an
\* expiring timer sends on its channel.
Tick ==
    /\ \E r \in Calls : timerRem[r] > 0
    /\ timerRem' = [r \in Calls |->
                       IF timerRem[r] > 0 THEN timerRem[r] - 1 ELSE 0]
    /\ fired' = [r \in Calls |-> fired[r] \/ timerRem[r] = 1]
    /\ sinceKick' = [r \in Calls |->
                       IF pc[r] \in {"off", "idle"} THEN sinceKick[r]
                       ELSE Min(sinceKick[r] + 1, Timeout)]
    /\ UNCHANGED <<pc, hasBody, parentDone, ctxDone, w, rd, pos, closed,
                   longGap>>
    /\ UNCHANGED <<regVars, facVars, rcVars>>

WTimerNoCancel(r) ==
    /\ w[r] = "select"
    /\ fired[r]
    /\ fired' = [fired EXCEPT ![r] = FALSE]
    /\ w' = [w EXCEPT ![r] = "stop"]
    /\ UNCHANGED <<pc, hasBody, parentDone, ctxDone, timerRem, rd, pos,
                   closed, sinceKick, longGap>>
    /\ UNCHANGED <<regVars, facVars, rcVars>>
\* The watcher's select takes case <-timer.C.
WTimer(r) ==
    /\ w[r] = "select"
    /\ fired[r]
    /\ fired' = [fired EXCEPT ![r] = FALSE]
    /\ w' = [w EXCEPT ![r] = "cancel"]
    /\ UNCHANGED <<pc, hasBody, parentDone, ctxDone, timerRem, rd, pos,
                   closed, sinceKick, longGap>>
    /\ UNCHANGED <<regVars, facVars, rcVars>>

\* The watcher runs cancel() in the timer case.
WCancel(r) ==
    /\ w[r] = "cancel"
    /\ ctxDone' = [ctxDone EXCEPT ![r] = Cancel(@)]
    /\ w' = [w EXCEPT ![r] = "stop"]
    /\ UNCHANGED <<pc, hasBody, parentDone, timerRem, fired, rd, pos, closed,
                   sinceKick, longGap>>
    /\ UNCHANGED <<regVars, facVars, rcVars>>

\* The watcher's select takes case <-ctx.Done().
WDone(r) ==
    /\ w[r] = "select"
    /\ ctxDone[r]
    /\ w' = [w EXCEPT ![r] = "stop"]
    /\ UNCHANGED <<pc, hasBody, parentDone, ctxDone, timerRem, fired, rd, pos,
                   closed, sinceKick, longGap>>
    /\ UNCHANGED <<regVars, facVars, rcVars>>

\* The watcher's deferred timer.Stop(), then the goroutine ends.
WStop(r) ==
    /\ w[r] = "stop"
    /\ timerRem' = [timerRem EXCEPT ![r] = TimerStop(@)]
    /\ w' = [w EXCEPT ![r] = "done"]
    /\ UNCHANGED <<pc, hasBody, parentDone, ctxDone, fired, rd, pos, closed,
                   sinceKick, longGap>>
    /\ UNCHANGED <<regVars, facVars, rcVars>>

\* Every step a call takes by itself (time and the parent context aside).
CallStep(r) ==
    \/ \E body \in BOOLEAN : RoundTrip(r, body)
    \/ TransportOK(r)
    \/ TransportErr(r)
    \/ \E b \in Bodies, len \in 0..MaxBuf : ReadStart(r, b, len)
    \/ \E b \in Bodies, n \in 0..ChunkSize : ReadReturn(r, b, n)
    \/ \E b \in Bodies : Close(r, b)
    \/ WTimer(r)
    \/ WCancel(r)
    \/ WDone(r)
    \/ WStop(r)

WdNext ==
    \/ \E r \in Calls : CallStep(r)
    \/ \E r \in Calls : ParentCancel(r)
    \/ Tick

\* One RoundTrip call on the transport.
Init == WdInit({"c1"}) /\ NewRegistry /\ FacIdle /\ RcIdle
Next == WdNext
Spec == Init /\ [][Next]_vars

\* The goroutine scheduler runs every runnable watcher, and time passes.
Fairness ==
    /\ WF_vars(Tick)
    /\ \A r \in Calls : /\ WF_vars(WTimer(r))
                        /\ WF_vars(WCancel(r))
                        /\ WF_vars(WDone(r))
                        /\ WF_vars(WStop(r))
FairSpec == Init /\ [][Next]_vars /\ Fairness

\* Two concurrent RoundTrip calls on the same transport, both without a
\* request body (GET requests), the caller passing buffers of MaxBuf bytes
\* and each underlying read delivering a full chunk or nothing.
ConcCallStep(r) ==
    \/ RoundTrip(r, FALSE)
    \/ TransportOK(r)
    \/ TransportErr(r)
    \/ ReadStart(r, "resp", MaxBuf)
    \/ \E n \in {0, ChunkSize} : ReadReturn(r, "resp", n)
    \/ Close(r, "resp")
    \/ WTimer(r)
    \/ WCancel(r)
    \/ WDone(r)
    \/ WStop(r)
ConcNext ==
    \/ \E r \in Calls : ConcCallStep(r)
    \/ \E r \in Calls : ParentCancel(r)
    \/ Tick
ConcInit == WdInit(Calls) /\ NewRegistry /\ FacIdle /\ RcIdle
ConcSpec == ConcInit /\ [][ConcNext]_vars

\* The registry alone.
RegInit == WdInit({}) /\ NewRegistry /\ FacIdle /\ RcIdle
RegNext ==
    \/ \E s \in Schemes, f \in Factories \cup {Nil} : Register(s, f)
    \/ \E s \in Schemes : Lookup(s)
RegSpec == RegInit /\ [][RegNext]_vars

\* The generic factories alone.
FacSpecInit == WdInit({}) /\ NewRegistry /\ FacInit /\ RcIdle
FacNext ==
    \/ \E f \in FacIds, s \in CfgStrings, ok \in BOOLEAN : ParseConfig(f, s, ok)
    \/ \E f \in FacIds, s \in Strings : StripPassword(f, s)
    \/ \E f \in FacIds, cfg \in CfgValues, rt \in Transports, lim \in Limiters,
          res \in {"backend", "error"} : Create(f, cfg, rt, lim, res)
    \/ \E f \in FacIds, cfg \in CfgValues, rt \in Transports, lim \in Limiters,
          res \in {"backend", "error"} : Open(f, cfg, rt, lim, res)
FacSpec == FacSpecInit /\ [][FacNext]_vars

\* The lone read-closer.
RcSpecInit == WdInit({}) /\ NewRegistry /\ FacIdle /\ RcInit
RcNext ==
    \/ \E len \in 0..MaxBuf : RcCall(len)
    \/ RcKickBefore
    \/ RcEnter
    \/ \E n \in 0..ChunkSize, err \in ReadErrs : RcUnderReturn(n, err)
    \/ RcKickAfter
    \/ RcReturn
    \/ \E uerr \in CloseErrs : RcClose(uerr)
RcSpec == RcSpecInit /\ [][RcNext]_vars

\* ------------------------------------------------------------- claims
Started(r) == pc[r] \in {"called", "ok", "err"}

\* A step of call r that kicks its timer: a Read entering or leaving rc.Read.
KickStep(r) ==
    \/ \E b \in Bodies, len \in 0..MaxBuf : ReadStart(r, b, len)
    \/ \E b \in Bodies, n \in 0..ChunkSize : ReadReturn(r, b, n)

\* C1 (as stated): if from some point on no further byte is delivered through
\* either wrapper and the response body is never closed, the derived context
\* is eventually cancelled.
C1_Original ==
    \A r \in Calls :
        (/\ <>Started(r)
         /\ <>[][pos'[r] = pos[r]]_vars
         /\ [](~closed[r]["resp"]))
        => <>ctxDone[r]

\* C1 (amended): if from some point on no Read on either wrapper starts or
\* returns (no kick happens any more) and the response body is never closed,
\* the derived context is eventually cancelled.
C1_StallCancelled ==
    \A r \in Calls :
        (/\ <>Started(r)
         /\ <>[][~KickStep(r)]_vars
         /\ [](~closed[r]["resp"]))
        => <>ctxDone[r]

\* C1 witness: a response read delivered a byte, the next one is blocked in
\* rc.Read, and the watcher (nobody else) has cancelled the context.
C1_Witness ==
    /\ pc["c1"] = "ok"
    /\ pos["c1"]["resp"] > 0
    /\ rd["c1"]["resp"].busy
    /\ ctxDone["c1"]
    /\ ~parentDone["c1"]
    /\ ~closed["c1"]["resp"]

\* C2: whenever a full timeout has elapsed since the last kick (or the timer
\* start) and the derived context is not done, the context gets cancelled, in
\* whatever phase the call is.
C2_TimeoutCancels ==
    \A r \in Calls :
        [](Started(r) /\ sinceKick[r] = Timeout /\ ~ctxDone[r] => <>ctxDone[r])

\* C2 witness: the request body was sent completely, the transport is still
\* waiting for the response, and the watcher has cancelled the context.
C2_Witness ==
    /\ pc["c1"] = "called"
    /\ hasBody["c1"]
    /\ pos["c1"]["req"] = StreamLen
    /\ ~rd["c1"]["req"].busy
    /\ sinceKick["c1"] = Timeout
    /\ ctxDone["c1"]
    /\ ~parentDone["c1"]
    /\ w["c1"] = "done"

\* C3 (as stated): parent never cancelled and every gap between consecutive
\* kicks (and from the timer start to the first kick) shorter than timeout:
\* the derived context is not cancelled before the response body is closed.
C3_Original ==
    \A r \in Calls :
        (Started(r) /\ ~parentDone[r] /\ ~longGap[r] /\ ~closed[r]["resp"])
        => ~ctxDone[r]

\* C3 (amended): parent never cancelled and the time since the last kick (or
\* the timer start) has never reached timeout, the gap still open included:
\* the derived context is not cancelled before the response body is closed.
C3_NoCancelWhileProgress ==
    \A r \in Calls :
        (/\ Started(r) /\ ~parentDone[r] /\ ~closed[r]["resp"]
         /\ ~longGap[r] /\ sinceKick[r] < Timeout)
        => ~ctxDone[r]

\* C3 witness: the response body was read to its end with time passing
\* between the kicks, and the context is still live.
C3_Witness ==
    /\ pc["c1"] = "ok"
    /\ pos["c1"]["resp"] = StreamLen
    /\ ~rd["c1"]["resp"].busy
    /\ ~longGap["c1"]
    /\ sinceKick["c1"] = Timeout - 1
    /\ ~ctxDone["c1"]
    /\ ~parentDone["c1"]

\* C4: the watcher terminates, and its last step leaves the timer stopped,
\* once the timer has fired, the derived context is done (parent cancelled or
\* response body closed), or the transport has returned an error; and after a
\* response it terminates unless a read of the response body is started.
C4_WatcherTerminates ==
    /\ \A r \in Calls :
         (Started(r) /\ (fired[r] \/ ctxDone[r] \/ pc[r] = "err"))
            ~> (w[r] = "done")
    /\ \A r \in Calls :
         (pc[r] = "ok") ~> (w[r] = "done" \/ rd[r]["resp"].busy)
    /\ [][\A r \in Calls :
            (w[r] # "done" /\ w'[r] = "done") => timerRem'[r] = 0]_vars

\* C4 witness: the transport returned an error, nobody cancelled the parent,
\* and the watcher has ended with the timer stopped.
C4_Witness ==
    /\ pc["c1"] = "err"
    /\ ~parentDone["c1"]
    /\ w["c1"] = "done"
    /\ timerRem["c1"] = 0

\* C5 (as stated): once Close was called on the response body and the watcher
\* has ended, the timer is never armed again, whatever Read runs concurrently
\* with or after the Close.
C5_Claim ==
    \A r \in Calls :
        (closed[r]["resp"] /\ w[r] = "done") => timerRem[r] = 0

\* C6 (as stated): after the wrapped transport returned an error, the watcher
\* leaves its select by observing context-done, never by the timer case that
\* invokes cancel after the call has completed.
C6_Claim ==
    [][\A r \in Calls :
          (pc[r] = "err" /\ w[r] = "select") => w'[r] # "cancel"]_vars

\* C7: a cancelled derived context stays cancelled: no kick, Read, Close or
\* watcher step makes it live again.
C7_CancelTerminal ==
    [][\A r \in Calls : ctxDone[r] => ctxDone'[r]]_vars

\* C7 witness: the response body was closed, the watcher has ended, a later
\* kick re-armed the timer, and the context is still cancelled.
C7_Witness ==
    /\ ctxDone["c1"]
    /\ closed["c1"]["resp"]
    /\ w["c1"] = "done"
    /\ timerRem["c1"] = Timeout

\* C8: a started call has exactly one watcher, and a step of one call (a kick,
\* a Close, a watcher step, a transport return) leaves the derived context,
\* the timer, the timer channel and the watcher of every other call alone.
C8_CallsIsolated ==
    /\ [](\A r \in Calls : Started(r) <=> w[r] # "none")
    /\ [][\A r \in Calls :
            ConcCallStep(r) =>
               \A q \in Calls \ {r} :
                  /\ ctxDone'[q] = ctxDone[q]
                  /\ timerRem'[q] = timerRem[q]
                  /\ fired'[q] = fired[q]
                  /\ w'[q] = w[q]]_vars

\* C8 witness: call c1 was closed and its watcher has ended, while call c2 is
\* live with its own timer half-way and its own watcher waiting.
C8_Witness ==
    /\ ctxDone["c1"]
    /\ closed["c1"]["resp"]
    /\ w["c1"] = "done"
    /\ pc["c2"] = "ok"
    /\ pos["c2"]["resp"] > 0
    /\ ~ctxDone["c2"]
    /\ timerRem["c2"] = 1
    /\ w["c2"] = "select"

\* What Lookup must return for scheme s according to the Register calls made.
Expected(s) == IF stored[s] = Never THEN Nil ELSE stored[s]

\* C9: after any sequence of Register calls, Lookup(scheme) is the factory
\* stored under that scheme, nil for a scheme never stored, and a Lookup
\* leaves the registry as it was.
C9_LookupReturnsRegistered ==
    /\ \A s \in Schemes : MapIndex(factories, s) = Expected(s)
    /\ lastOp.op = "lookup" =>
          /\ lastOp.out = Expected(lastOp.scheme)
          /\ factories = lastOp.before

\* C9 witness: a Lookup of s3 returned f2 while local holds f1.
C9_Witness ==
    /\ lastOp.op = "lookup"
    /\ lastOp.scheme = "s3"
    /\ lastOp.out = "f2"
    /\ MapIndex(factories, "local") = "f1"

\* C10 (as stated): Register on a scheme that has been registered before
\* panics, whatever the two factories are, and keeps the earlier entry.
C10_Claim ==
    (lastOp.op = "register" /\ lastOp.scheme \in DOMAIN lastOp.before)
        => (lastOp.panic /\ factories = lastOp.before)

\* The last factory call was a Create or an Open.
IsCreateOrOpen == facOp.op \in {"create", "open"}

\* The inner call a Create/Open of factory f with config c has to make.
ExpectedInner(f, fn, c) ==
    IF FacKind(f) = "http"
      THEN {[fn |-> fn, cfg |-> c, rt |-> rt, lim |-> Unused] : rt \in Transports}
      ELSE {[fn |-> fn, cfg |-> c, rt |-> Unused, lim |-> lim] : lim \in Limiters}

\* C11 (as stated): Create and Open called with any config value the same
\* factory's ParseConfig returned reach the backend's function, no panic.
C11_Original ==
    (IsCreateOrOpen /\ [f |-> facOp.f, cfg |-> facOp.arg] \in returned)
        => (facOp.panic = "none" /\ facOp.inner.fn = facOp.op)

\* C11 (amended): Create and Open called with a config value the same
\* factory's ParseConfig returned that holds a non-nil *C reach the backend's
\* function with that config, with the transport (transport-based variant)
\* or the limiter (limiter-based variant), and return its result.
C11_ParsedConfigReaches ==
    (/\ IsCreateOrOpen
     /\ [f |-> facOp.f, cfg |-> facOp.arg] \in returned
     /\ facOp.arg.val # NilPtr)
        => /\ facOp.panic = "none"
           /\ facOp.inner \in ExpectedInner(facOp.f, facOp.op, facOp.arg.val)
           /\ facOp.out \in {"backend", "error"}

\* C11 witness: the limiter-based factory opened a backend from a config its
\* own ParseConfig returned; the inner function got the limiter only.
C11_Witness ==
    /\ facOp.op = "open"
    /\ facOp.f = "fb"
    /\ [f |-> "fb", cfg |-> facOp.arg] \in returned
    /\ facOp.inner.lim = "lim1"
    /\ facOp.inner.rt = Unused
    /\ facOp.out = "backend"

\* C12: Create and Open called with a config value whose dynamic type is not
\* the factory's own *C panic, never call the backend's function and return
\* no backend.
C12_WrongTypePanics ==
    (IsCreateOrOpen /\ facOp.arg.dyn # ParsedType(facOp.f))
        => /\ facOp.panic # "none"
           /\ facOp.inner = NoCall
           /\ facOp.out = "panic"

\* C12 witness: the transport-based factory was handed the other factory's
\* (non-nil) config and panicked in the type assertion.
C12_Witness ==
    /\ facOp.op = "create"
    /\ facOp.f = "fa"
    /\ facOp.arg = [dyn |-> "*B", val |-> "host"]
    /\ facOp.panic = "assert"

\* C13: StripPassword(s) is s when no stripping function was supplied and
\* the supplied function's result for s otherwise, for every string.
C13_StripPassword ==
    facOp.op = "strip" =>
        facOp.out = (IF facStrip[facOp.f] = Nil
                       THEN facOp.arg
                       ELSE ApplyStrip(facStrip[facOp.f], facOp.arg))

\* C13 witness: a factory without stripping function got the empty string
\* and gave it back, while the other factory has a stripping function.
C13_Witness ==
    /\ facOp.op = "strip"
    /\ facStrip[facOp.f] = Nil
    /\ facOp.arg = ""
    /\ facOp.out = ""
    /\ \E g \in FacIds : facStrip[g] = "redact"

\* A full timeout has passed at some time without a kick of call r.
TimedOut(r) == longGap[r] \/ sinceKick[r] = Timeout

\* C14: the derived context is cancelled only because the parent context was
\* cancelled, the response body was closed, or the timer elapsed and the
\* watcher cancelled; the watcher enters its cancel case only on a fired
\* timer, cancels only there, and leaves by the context-done case without
\* changing the context.
C14_CancelCauses ==
    /\ [](\A r \in Calls :
            ctxDone[r] =>
               \/ parentDone[r]
               \/ closed[r]["resp"]
               \/ (w[r] \in {"stop", "done"} /\ TimedOut(r)))
    /\ [][\A r \in Calls :
            /\ (w[r] = "select" /\ w'[r] = "cancel") => fired[r]
            /\ (w[r] # "none" /\ w'[r] # w[r] /\ ctxDone'[r] # ctxDone[r])
                  => w[r] = "cancel"
            /\ (w[r] = "select" /\ w'[r] = "stop") =>
                  (ctxDone[r] /\ ctxDone'[r] = ctxDone[r])]_vars

\* C14 witness: the response was handed out, nobody closed it or cancelled
\* the parent, and the watcher has cancelled the context and ended.
C14_Witness ==
    /\ pc["c1"] = "ok"
    /\ ctxDone["c1"]
    /\ ~parentDone["c1"]
    /\ ~closed["c1"]["resp"]
    /\ w["c1"] = "done"

\* C18: a Close of the request-body wrapper marks that body closed and leaves
\* the derived context, the watcher and the timer as they were; a Close of
\* the response-body wrapper cancels the derived context.
C18_RequestCloseKeepsContext ==
    [][\A r \in Calls :
          /\ Close(r, "req") =>
                /\ closed'[r]["req"]
                /\ ctxDone'[r] = ctxDone[r]
                /\ w'[r] = w[r]
                /\ timerRem'[r] = timerRem[r]
          /\ Close(r, "resp") => ctxDone'[r]]_vars

\* C18 witness: the transport has closed the request body while its
\* RoundTrip still runs; the context is live, the watcher waits, the timer
\* is armed.
C18_Witness ==
    /\ pc["c1"] = "called"
    /\ closed["c1"]["req"]
    /\ ~ctxDone["c1"]
    /\ w["c1"] = "select"
    /\ timerRem["c1"] > 0

\* C15: every Read kicks exactly once before the underlying read is started
\* and exactly once after it has returned and before the caller observes the
\* result, whatever the underlying read returned: no kick has happened when
\* Read is entered, one has when rc.Read is called, runs and returns, and two
\* have when Read is about to return and when the caller has the result.
C15_KicksAroundRead ==
    /\ rcPc = "l86" => rcKicks = 0
    /\ rcPc \in {"l88", "l91", "l92"} => rcKicks = 1
    /\ rcPc = "l94" => rcKicks = 2
    /\ (rcPc = "idle" /\ rcRet # NoRet) => rcKicks = 2

\* C15 witness: a Read whose underlying read failed without a byte has
\* returned to its caller.
C15_Witness ==
    /\ rcPc = "idle"
    /\ rcRet = [n |-> 0, err |-> "err"]
    /\ rcKicks = 2

\* C16: every Read hands the underlying stream a slice of at most chunkSize
\* bytes and no longer than the caller's buffer, and returns
\* n <= min(len(p), chunkSize), for every buffer length.
C16_ChunkBound ==
    /\ rcPc \in {"l91", "l92", "l94"} =>
          /\ rcWant <= rcChunk
          /\ rcWant <= rcLen
          /\ rcWant = Min(rcLen, rcChunk)
    /\ (rcPc = "idle" /\ rcRet # NoRet) => rcRet.n <= Min(rcLen, rcChunk)

\* C16 witness: a Read with a buffer larger than chunkSize has returned a
\* full chunk.
C16_Witness ==
    /\ rcPc = "idle"
    /\ rcLen > rcChunk
    /\ rcRet.n = rcChunk
    /\ rcRet.err = "nil"

\* What k Close calls must have called, in order.
CloseCallsPer == IF rcHasClose THEN 2 ELSE 1

\* C17: every Close first invokes the close action when there is one and then
\* the underlying Close; nothing is deduplicated, k Close calls make k close
\* action calls and k underlying Close calls; the result of the underlying
\* Close is what Close returns.
C17_CloseForwards ==
    /\ Len(rcCloseLog) = rcCloses * CloseCallsPer
    /\ \A k \in 1..rcCloses :
          /\ rcHasClose => rcCloseLog[(k - 1) * CloseCallsPer + 1] = "close()"
          /\ \E e \in CloseErrs :
                rcCloseLog[k * CloseCallsPer] = "rc.Close:" \o e
    /\ rcCloses > 0 => rcCloseLog[Len(rcCloseLog)] = "rc.Close:" \o rcCloseRet
    /\ rcCloses = 0 => rcCloseRet = "none"

\* C17 witness: a read-closer with a close action was closed twice, the
\* second underlying Close failing.
C17_Witness ==
    /\ rcHasClose
    /\ rcCloses = 2
    /\ rcCloseRet = "err"
    /\ rcCloseLog = <<"close()", "rc.Close:nil", "close()", "rc.Close:err">>

\* C19: between Reads, the bytes the callers got are, in order, the bytes
\* consumed from the underlying stream, and the last Read returned the
\* (n, err) of its underlying read unchanged, for every buffer size and
\* every chunkSize >= 1.
C19_StreamPreserved ==
    rcPc = "idle" =>
        /\ rcOut = StreamBytes(0, uPos)
        /\ rcRet # NoRet => (rcRet.n = rcRes.n /\ rcRet.err = rcRes.err)

\* C19 witness: the whole stream was read through a read-closer of
\* chunkSize 1 with buffers larger than that, the last Read returning its
\* byte together with EOF.
C19_Witness ==
    /\ rcPc = "idle"
    /\ rcChunk = 1
    /\ rcLen > rcChunk
    /\ uPos = StreamLen
    /\ rcOut = StreamBytes(0, StreamLen)
    /\ rcRet = [n |-> 1, err |-> "EOF"]

\* C20: Register(scheme, f) panics exactly when Lookup(scheme) returned
\* non-nil just before it; a scheme registered with a nil factory looks up
\* as nil and is registered again without a panic.
C20_PanicIffLookupNonNil ==
    lastOp.op = "register" =>
        /\ lastOp.panic <=> (MapIndex(lastOp.before, lastOp.scheme) # Nil)
        /\ ~lastOp.panic =>
              factories = MapAssign(lastOp.before, lastOp.scheme, lastOp.factory)

\* C20 witness: a scheme that was registered with a nil factory has been
\* registered again, with a real factory, without a panic.
C20_Witness ==
    /\ lastOp.op = "register"
    /\ lastOp.scheme \in DOMAIN lastOp.before
    /\ lastOp.before[lastOp.scheme] = Nil
    /\ lastOp.factory = "f1"
    /\ ~lastOp.panic
    /\ MapIndex(factories, lastOp.scheme) = "f1"

====
